---- MODULE Spec2Model ----
(***************************************************************************)
(* Model of basic_config.py: provisioning of Cisco devices over a serial   *)
(* console.  Five state machines share this module:                        *)
(*   Spec        aplicar_config for one device record (with autodetection, *)
(*               serial validation, the configuration sequence, I/O        *)
(*               failures and operator interrupts); every command exchange *)
(*               is one step.                                              *)
(*   SpecLeer    one call of ejecutar_comando, step by step, with the      *)
(*               clock, the receive buffer and the bytes the device still  *)
(*               sends, followed by the read of the confirmation step.     *)
(*   SpecLote    proceso_desde_csv: the worklist built from the rows of    *)
(*               the file and the loop that calls aplicar_config for each  *)
(*               entry (the steps of Spec).                                *)
(*   SpecSerie   the patterns of buscar_serial and the serial comparison   *)
(*               of aplicar_config, applied to given texts.                *)
(*   SpecEnable  one call of ir_a_enable, step by step.                    *)
(***************************************************************************)
EXTENDS Naturals, Integers, Sequences, FiniteSets, TLC

\* ------------------------------------------------------------------ bounds
\* candidate ports returned by puertos_disponibles (the fallback has 18)
NumPuertos == 2
\* I/O failures the environment injects in one run of aplicar_config
MaxFallos == 1
\* length of the device's answer to one command, in bytes
MaxResp == 3
\* stale bytes pending in the receive buffer when a command is sent
MaxViejos == 1
\* what one sleep of the poll loop may overrun, in ms
JitterMs == 10

\* ------------------------------------------------------------- text helpers
\* The letters of the model, in upper case.
Mayus(c) ==
  CASE c = "a" -> "A" [] c = "b" -> "B" [] c = "e" -> "E" [] c = "i" -> "I"
    [] c = "l" -> "L" [] c = "m" -> "M" [] c = "n" -> "N" [] c = "r" -> "R"
    [] c = "s" -> "S" [] c = "u" -> "U" [] c = "d" -> "D" [] c = "o" -> "O"
    [] c = "p" -> "P" [] c = "w" -> "W" [] c = "x" -> "X" [] OTHER -> c

\* str.upper()
Upper(s) == [i \in 1..Len(s) |-> Mayus(s[i])]

\* white space: a blank, a line break
EsBlanco(c) == c \in {" ", "\n"}

RECURSIVE LStrip(_)
LStrip(s) == IF s # <<>> /\ EsBlanco(Head(s)) THEN LStrip(Tail(s)) ELSE s

RECURSIVE RStrip(_)
RStrip(s) ==
  IF s # <<>> /\ EsBlanco(s[Len(s)]) THEN RStrip(SubSeq(s, 1, Len(s) - 1)) ELSE s

\* str.strip()
Strip(s) == RStrip(LStrip(s))

\* Python truthiness of a str ("" is falsy)
Verdadero(s) == s # ""

\* the upper-case letters and the digits of the model
MAYUSCULAS ==
  {"A", "B", "D", "E", "I", "L", "M", "N", "O", "P", "R", "S", "U", "W", "X"}
DIGITOS == {"1", "2"}

\* [A-Z0-9], as written and under re.IGNORECASE
EsAlnumMayus(c) == c \in MAYUSCULAS \cup DIGITOS
EsAlnum(c) == Mayus(c) \in MAYUSCULAS \cup DIGITOS
EsDeClase(c, sinCaja) == IF sinCaja THEN EsAlnum(c) ELSE EsAlnumMayus(c)

\* ------------------------------------------------------------ the universe
\* no serial (None)
Ninguna == <<>>
\* no channel (None)
NingunCanal == "None"

\* what buscar_serial can extract from a device's show inventory
SeriesEquipo == { <<"A", "1">>, <<"b", "2">> }
\* the Serie column of the worklist
SeriesCsv == { <<" ", "a", "1", " ">>, <<"B", "2">> }

NombresPuerto == <<"COM3", "COM4", "COM5", "COM6">>

\* puertos_disponibles(): the candidate list, in order
Puertos == SubSeq(NombresPuerto, 1, NumPuertos)

Registros ==
  [ puerto : {"auto", "COM3"},
    hostname : {"R_Lab1"},
    usuario : {"", "R_Lab1"},
    clave : {"", "Secr3t"},
    dominio : {"", "lab.local"},
    serie_csv : SeriesCsv ]

\* the lines written to a channel, as tuples of words (CRLF left out)
LineaVacia == <<>>
TL0 == <<"terminal length 0">>
ShowInv == <<"show inventory">>
Enable == <<"enable">>
ConfT == <<"configure terminal">>
Hostname(h) == <<"hostname", h>>
Username(u, c) == <<"username", u, "privilege 15 secret", c>>
IpDomain(d) == <<"ip domain-name", d>>
NoLookup == <<"no ip domain-lookup">>
PwdEnc == <<"service password-encryption">>
Crypto == <<"crypto key generate rsa modulus 1024">>
LineVty == <<"line vty 0 4">>
LoginLocal == <<"login local">>
TransIn == <<"transport input ssh">>
TransOut == <<"transport output ssh">>
Exit == <<"exit">>
SshV2 == <<"ip ssh version 2">>
End == <<"end">>
WriteMem == <<"write memory">>

\* exceptions: the I/O failures of pyserial, and the operator's Ctrl-C
ErroresIO == {"SerialException"}
Interrupcion == "KeyboardInterrupt"

\* `except Exception`: KeyboardInterrupt derives from BaseException only
EsException(e) == e \in ErroresIO

VARIABLES
  reg,              \* the device record aplicar_config was called with
  pc,               \* position in aplicar_config and its callees
  idx,              \* autodetectar_conexion: index of the candidate port
  cand,             \* probar_puerto: its local canal
  canal,            \* aplicar_config: its local canal
  serie_detectada,  \* the serial buscar_serial returned
  paso,             \* index of the next command of the configuration
  resultado,        \* what aplicar_config returned
  abiertos,         \* the ports whose channel is open
  bitacora,         \* every open, write and close done on the channels
  sonda,            \* what probar_puerto returned for each candidate
  fallos,           \* I/O failures injected so far
  fallidas,         \* the exchanges that hit an I/O failure
  \* ---- one call of ejecutar_comando, step by step
  pcL,              \* position in ejecutar_comando / leer_hasta_prompt
  pausa,            \* the pausa argument, in ms
  reloj,            \* time.time(), in ms
  fin,              \* leer_hasta_prompt: fin
  enBuffer,         \* the driver's receive buffer (in_waiting bytes)
  porLlegar,        \* the bytes the device has still to send
  respuesta,        \* the device's whole answer to the command
  salida,           \* ejecutar_comando: salida after the first read
  buf,              \* leer_hasta_prompt: buf
  sondeos,          \* polls done by leer_hasta_prompt
  porPrompt,        \* leer_hasta_prompt left its loop by the break
  falloEn,          \* the step at which an I/O failure was injected
  retorno,          \* what ejecutar_comando returned
  habiaViejos,      \* bytes were pending when it was called
  eco,              \* aplicar_config, step 4: echo
  host_visto        \* aplicar_config, step 4: host_visto

varsCfg ==
  << reg, pc, idx, cand, canal, serie_detectada, paso, resultado, abiertos,
     bitacora, sonda, fallos, fallidas >>

varsLeer ==
  << pcL, pausa, reloj, fin, enBuffer, porLlegar, respuesta, salida, buf,
     sondeos, porPrompt, falloEn, retorno, habiaViejos, eco, host_visto >>

\* ---- proceso_desde_csv: the batch loop around aplicar_config
VARIABLES
  tabla,            \* the rows of the CSV file
  cola,             \* cola_de_trabajo
  pos,              \* the loop's idx: the worklist entry being processed
  ok,               \* the devices aplicar_config returned True for
  fail,             \* the devices aplicar_config returned False for
  pcLote,           \* position in proceso_desde_csv
  intentos,         \* the worklist positions aplicar_config was called for
  devueltos         \* what each of these calls returned

varsLote == << tabla, cola, pos, ok, fail, pcLote, intentos, devueltos >>

\* ---- buscar_serial's patterns and the serial comparison, on given texts
VARIABLES
  pcT,              \* which function is applied, and whether it has been
  resp,             \* buscar_serial: the response to show inventory
  extraida,         \* buscar_serial: what it returned
  detectada,        \* aplicar_config: serie_detectada, as a given text
  esperada,         \* aplicar_config: serie_csv, as a given text
  valida            \* aplicar_config: the device passed step 2

varsSerie == << pcT, resp, extraida, detectada, esperada, valida >>

\* ---- one call of ir_a_enable, step by step
VARIABLES
  pcE,              \* position in ir_a_enable
  clave_enable,     \* the clave_enable argument ("" for None)
  anuncio,          \* what the device sends in answer to enable
  leida,            \* salida after the first read
  escritasE,        \* the lines written to the channel
  promptLeido       \* the timeout leer_hasta_prompt was called with, in ms

varsEnable == << pcE, clave_enable, anuncio, leida, escritasE, promptLeido >>

\* the variables of the functions that are followed on their own
varsAparte == << varsSerie, varsEnable >>

vars == << varsCfg, varsLeer, varsLote, varsAparte >>

\* what the steps of aplicar_config / of ejecutar_comando / of the batch loop
\* leave alone
fueraDeCfg == << varsLeer, varsLote, varsAparte >>
fueraDeLeer == << varsCfg, varsLote, varsAparte >>
fueraDeLote == << varsLeer, varsAparte >>

\* ------------------------------------------------------------- aplicar_config
\* str(puerto).strip().lower() == "auto" (the model's port names are already
\* trimmed and lower-case)
EsAuto(p) == p = "auto"

Ev(op, p, l) == [op |-> op, puerto |-> p, linea |-> l]

\* the channel buscar_serial and the exchanges talk to
CanalActual == IF canal # NingunCanal THEN canal ELSE cand

\* a handler of a narrower exception class than the one raised
CapturaSoloTimeout(e) == e = "SerialTimeoutException"

\* the try blocks: ejecutar_comando, probar_puerto, aplicar_config
CapturaEjecutar(e) == EsException(e)
CapturaProbar(e) == EsException(e)
CapturaAplicar(e) == EsException(e)

\* One exchange of ejecutar_comando as a whole: where it fails, if it does.
SalidasIO == {"ok", "falla_drenar", "falla_escribir", "falla_leer"}

\* the write happens when neither the drain read nor the write raised
SeEscribe(o) == o \in {"ok", "falla_leer"}

\* ejecutar_comando returns (the response, or the synthetic error string)
Retorna(o) == o = "ok" \/ CapturaEjecutar("SerialException")

LogTras(l, o) ==
  IF SeEscribe(o) THEN Append(bitacora, Ev("escribir", CanalActual, l))
  ELSE bitacora

\* the failure counters after an exchange of line l with outcome o
Cuenta(l, o, fase) ==
  /\ o = "ok" \/ fallos < MaxFallos
  /\ fallos' = IF o = "ok" THEN fallos ELSE fallos + 1
  /\ fallidas' =
       IF o = "ok" THEN fallidas
       ELSE fallidas \cup {[fase |-> fase, linea |-> l]}

\* within probar_puerto's try block
EnProbar ==
  /\ EsAuto(reg.puerto)
  /\ pc \in {"probar_banner", "buscar_tl0", "buscar_inv", "probar_decide"}

\* Exception e is raised, the log being b: probar_puerto's handler returns
\* (None, None) without closing; aplicar_config's closes canal if it is set and
\* returns False; an exception neither catches unwinds out of aplicar_config.
Lanzar(e, b, enProbar) ==
  IF enProbar /\ CapturaProbar(e)
  THEN /\ pc' = "auto_bucle"
       /\ idx' = idx + 1
       /\ cand' = NingunCanal
       /\ sonda' = Append(sonda, [puerto |-> Puertos[idx], serie |-> Ninguna])
       /\ bitacora' = b
       /\ UNCHANGED << canal, resultado, abiertos >>
  ELSE IF CapturaAplicar(e)
  THEN /\ pc' = "retorno"
       /\ resultado' = "False"
       /\ abiertos' = abiertos \ {canal}
       /\ bitacora' =
            IF canal # NingunCanal THEN Append(b, Ev("cerrar", canal, <<>>))
            ELSE b
       /\ UNCHANGED << idx, cand, canal, sonda >>
  ELSE /\ pc' = "interrumpido"
       /\ bitacora' = b
       /\ UNCHANGED << idx, cand, canal, sonda, resultado, abiertos >>

Inicio ==
  /\ UNCHANGED fueraDeCfg
  /\ pc = "inicio"
  /\ pc' = IF EsAuto(reg.puerto) THEN "auto_bucle" ELSE "abrir_fijo"
  /\ UNCHANGED << reg, idx, cand, canal, serie_detectada, paso, resultado,
                  abiertos, bitacora, sonda, fallos, fallidas >>

\* serial.Serial(puerto, ...) of the explicit port
AbrirFijo ==
  /\ UNCHANGED fueraDeCfg
  /\ pc = "abrir_fijo"
  /\ \E abre \in BOOLEAN :
       IF abre
       THEN /\ canal' = reg.puerto
            /\ abiertos' = abiertos \cup {reg.puerto}
            /\ bitacora' = Append(bitacora, Ev("abrir", reg.puerto, <<>>))
            /\ pc' = "buscar_tl0"
            /\ UNCHANGED << idx, cand, sonda, resultado >>
       ELSE Lanzar("SerialException", bitacora, FALSE)
  /\ UNCHANGED << reg, serie_detectada, paso, fallos, fallidas >>

\* autodetectar_conexion found nothing: aplicar_config returns False
AutoAgotado ==
  /\ UNCHANGED fueraDeCfg
  /\ pc = "auto_bucle"
  /\ idx > Len(Puertos)
  /\ pc' = "retorno"
  /\ resultado' = "False"
  /\ UNCHANGED << reg, idx, cand, canal, serie_detectada, paso, abiertos,
                  bitacora, sonda, fallos, fallidas >>

\* probar_puerto: serial.Serial(puerto, ...) of the next candidate
ProbarAbrir ==
  /\ UNCHANGED fueraDeCfg
  /\ pc = "auto_bucle"
  /\ idx <= Len(Puertos)
  /\ \E abre \in BOOLEAN :
       IF abre
       THEN /\ cand' = Puertos[idx]
            /\ abiertos' = abiertos \cup {Puertos[idx]}
            /\ bitacora' = Append(bitacora, Ev("abrir", Puertos[idx], <<>>))
            /\ pc' = "probar_banner"
            /\ UNCHANGED << idx, canal, sonda, resultado >>
       ELSE Lanzar("SerialException", bitacora, TRUE)
  /\ UNCHANGED << reg, serie_detectada, paso, fallos, fallidas >>

\* probar_puerto: read the banner, write a bare line break, read again
ProbarBanner ==
  /\ UNCHANGED fueraDeCfg
  /\ pc = "probar_banner"
  /\ \E f \in {"ok", "falla_leer1", "falla_escribir", "falla_leer2"} :
       LET b == IF f \in {"ok", "falla_leer2"}
                THEN Append(bitacora, Ev("escribir", cand, LineaVacia))
                ELSE bitacora
       IN  /\ Cuenta(LineaVacia, f, "sonda")
           /\ IF f = "ok"
              THEN /\ pc' = "buscar_tl0"
                   /\ bitacora' = b
                   /\ UNCHANGED << idx, cand, canal, sonda, resultado,
                                   abiertos >>
              ELSE Lanzar("SerialException", b, TRUE)
  /\ UNCHANGED << reg, serie_detectada, paso >>

\* buscar_serial: ejecutar_comando("terminal length 0")
BuscarTL0 ==
  /\ UNCHANGED fueraDeCfg
  /\ pc = "buscar_tl0"
  /\ \E o \in SalidasIO :
       /\ Cuenta(TL0, o, "sonda")
       /\ IF Retorna(o)
          THEN /\ pc' = "buscar_inv"
               /\ bitacora' = LogTras(TL0, o)
               /\ UNCHANGED << idx, cand, canal, sonda, resultado, abiertos >>
          ELSE Lanzar("SerialException", LogTras(TL0, o), EnProbar)
  /\ UNCHANGED << reg, serie_detectada, paso >>

\* buscar_serial: ejecutar_comando("show inventory") and the two patterns; an
\* error string carries no serial, a response carries one or none
BuscarInventario ==
  /\ UNCHANGED fueraDeCfg
  /\ pc = "buscar_inv"
  /\ \E o \in SalidasIO :
       /\ Cuenta(ShowInv, o, "sonda")
       /\ IF Retorna(o)
          THEN /\ \E s \in (IF o = "ok" THEN SeriesEquipo ELSE {}) \cup {Ninguna} :
                    serie_detectada' = s
               /\ pc' = IF EsAuto(reg.puerto) THEN "probar_decide" ELSE "validar"
               /\ bitacora' = LogTras(ShowInv, o)
               /\ UNCHANGED << idx, cand, canal, sonda, resultado, abiertos >>
          ELSE /\ Lanzar("SerialException", LogTras(ShowInv, o), EnProbar)
               /\ UNCHANGED serie_detectada
  /\ UNCHANGED << reg, paso >>

\* the test of autodetectar_conexion with the serial's sense inverted
EncontradoInvertido(c, s) == c # NingunCanal /\ s = Ninguna

\* autodetectar_conexion: `if canal and serie`
Encontrado(c, s) == c # NingunCanal /\ s # Ninguna

\* probar_puerto returns (canal, serie), or closes and returns (None, None);
\* autodetectar_conexion returns the first hit to aplicar_config
ProbarDecide ==
  /\ UNCHANGED fueraDeCfg
  /\ pc = "probar_decide"
  /\ IF serie_detectada # Ninguna
     THEN /\ sonda' = Append(sonda, [puerto |-> cand, serie |-> serie_detectada])
          /\ IF Encontrado(cand, serie_detectada)
             THEN /\ canal' = cand
                  /\ pc' = "validar"
                  /\ UNCHANGED << idx, serie_detectada >>
             ELSE /\ pc' = "auto_bucle"
                  /\ idx' = idx + 1
                  /\ serie_detectada' = Ninguna
                  /\ UNCHANGED canal
          /\ cand' = NingunCanal
          /\ UNCHANGED << abiertos, bitacora >>
     ELSE /\ sonda' = Append(sonda, [puerto |-> cand, serie |-> Ninguna])
          /\ abiertos' = abiertos \ {cand}
          /\ bitacora' = Append(bitacora, Ev("cerrar", cand, <<>>))
          /\ cand' = NingunCanal
          /\ pc' = "auto_bucle"
          /\ idx' = idx + 1
          /\ UNCHANGED << canal, serie_detectada >>
  /\ UNCHANGED << reg, paso, resultado, fallos, fallidas >>

\* the comparison of step 2 with its sense inverted
SerieCoincideInvertida(det, csv) == Upper(Strip(det)) # Upper(Strip(csv))

\* the comparison of step 2 without the trimming
SerieCoincideSinStrip(det, csv) == Upper(det) = Upper(csv)

\* str(a).strip().upper() != str(b).strip().upper()
SerieCoincide(det, csv) == Upper(Strip(det)) = Upper(Strip(csv))

\* the two checks of step 2: a serial was read, and it is the expected one
PasaValidacion(det, csv) == det # Ninguna /\ SerieCoincide(det, csv)

Validar ==
  /\ UNCHANGED fueraDeCfg
  /\ pc = "validar"
  /\ IF PasaValidacion(serie_detectada, reg.serie_csv)
     THEN /\ pc' = "enable"
          /\ UNCHANGED << resultado, abiertos, bitacora >>
     ELSE /\ abiertos' = abiertos \ {canal}
          /\ bitacora' = Append(bitacora, Ev("cerrar", canal, <<>>))
          /\ resultado' = "False"
          /\ pc' = "retorno"
  /\ UNCHANGED << reg, idx, cand, canal, serie_detectada, paso, sonda, fallos,
                  fallidas >>

\* ir_a_enable(canal, clave if clave else None): writes enable and, when the
\* response asks for a password, the password or an empty line; it has no try
\* block, so a failure of any of its reads or writes reaches aplicar_config.
SalidasEnable ==
  {"ok", "falla_drenar", "falla_escribir", "falla_leer", "falla_escribir_clave",
   "falla_leer_clave", "falla_leer_final"}

LineaClave(clave) == IF Verdadero(clave) THEN <<clave>> ELSE LineaVacia

LineasEnable(f, pide, clave) ==
  IF f \in {"falla_drenar", "falla_escribir"} THEN <<>>
  ELSE IF f = "falla_leer" \/ ~pide \/ f = "falla_escribir_clave" THEN <<Enable>>
  ELSE <<Enable, LineaClave(clave)>>

RECURSIVE Escritas(_, _, _)
Escritas(b, p, ls) ==
  IF ls = <<>> THEN b
  ELSE Escritas(Append(b, Ev("escribir", p, Head(ls))), p, Tail(ls))

IrAEnable ==
  /\ UNCHANGED fueraDeCfg
  /\ pc = "enable"
  /\ \E f \in SalidasEnable, pide \in BOOLEAN :
       /\ f \in {"falla_escribir_clave", "falla_leer_clave"} => pide
       /\ f \in {"falla_drenar", "falla_escribir", "falla_leer"} => ~pide
       /\ Cuenta(Enable, f, "config")
       /\ LET b == Escritas(bitacora, canal, LineasEnable(f, pide, reg.clave))
          IN  IF f = "ok"
              THEN /\ pc' = "config"
                   /\ bitacora' = b
                   /\ UNCHANGED << idx, cand, canal, sonda, resultado, abiertos >>
              ELSE Lanzar("SerialException", b, FALSE)
  /\ UNCHANGED << reg, serie_detectada, paso >>

\* `if usuario and clave`
EmiteUsuario(u, c) == Verdadero(u) /\ Verdadero(c)

\* `if dominio` (both occurrences)
EmiteDominio(d) == Verdadero(d)

\* the commands of step 3 after ir_a_enable, in the order of the code
Secuencia(r) ==
  << TL0, ConfT, Hostname(r.hostname) >>
  \o (IF EmiteUsuario(r.usuario, r.clave)
      THEN << Username(r.usuario, r.clave) >> ELSE << >>)
  \o (IF EmiteDominio(r.dominio) THEN << IpDomain(r.dominio) >> ELSE << >>)
  \o << NoLookup, PwdEnc >>
  \o (IF EmiteDominio(r.dominio)
      THEN << Crypto, LineVty, LoginLocal, TransIn, TransOut, Exit, SshV2 >>
      ELSE << >>)
  \o << End, WriteMem >>

\* one ejecutar_comando of the configuration sequence; its result is ignored
EjecutarPaso ==
  /\ UNCHANGED fueraDeCfg
  /\ pc = "config"
  /\ LET l == Secuencia(reg)[paso]
     IN  \E o \in SalidasIO :
           /\ Cuenta(l, o, "config")
           /\ IF Retorna(o)
              THEN /\ pc' = IF paso = Len(Secuencia(reg)) THEN "confirmar"
                            ELSE "config"
                   /\ paso' = paso + 1
                   /\ bitacora' = LogTras(l, o)
                   /\ UNCHANGED << idx, cand, canal, sonda, resultado,
                                   abiertos >>
              ELSE /\ Lanzar("SerialException", LogTras(l, o), FALSE)
                   /\ UNCHANGED paso
  /\ UNCHANGED << reg, serie_detectada >>

\* step 4: ejecutar_comando(canal, "")
ConfirmarEnter ==
  /\ UNCHANGED fueraDeCfg
  /\ pc = "confirmar"
  /\ \E o \in SalidasIO :
       /\ Cuenta(LineaVacia, o, "confirmar")
       /\ IF Retorna(o)
          THEN /\ pc' = "confirmar_eco"
               /\ bitacora' = LogTras(LineaVacia, o)
               /\ UNCHANGED << idx, cand, canal, sonda, resultado, abiertos >>
          ELSE Lanzar("SerialException", LogTras(LineaVacia, o), FALSE)
  /\ UNCHANGED << reg, serie_detectada, paso >>

\* step 4: canal.read(...), the hostname pattern, canal.close(), return True
ConfirmarEco ==
  /\ UNCHANGED fueraDeCfg
  /\ pc = "confirmar_eco"
  /\ \E f \in {"ok", "falla_leer"} :
       /\ Cuenta(<<"read">>, f, "confirmar")
       /\ IF f = "ok"
          THEN /\ abiertos' = abiertos \ {canal}
               /\ bitacora' = Append(bitacora, Ev("cerrar", canal, <<>>))
               /\ resultado' = "True"
               /\ pc' = "retorno"
               /\ UNCHANGED << idx, cand, canal, sonda >>
          ELSE Lanzar("SerialException", bitacora, FALSE)
  /\ UNCHANGED << reg, serie_detectada, paso >>

Terminado == pc \in {"retorno", "interrumpido", "inactivo"}

\* the operator presses Ctrl-C while aplicar_config runs
Interrumpir ==
  /\ UNCHANGED fueraDeCfg
  /\ ~Terminado
  /\ Lanzar(Interrupcion, bitacora, EnProbar)
  /\ UNCHANGED << reg, serie_detectada, paso, fallos, fallidas >>

\* the channels a live local variable still refers to
Referenciados == IF Terminado THEN {} ELSE {canal, cand}

\* A Serial object nothing refers to any more may be closed by its finalizer,
\* at a time the interpreter chooses (no call of the program: not logged).
RecolectarBasura ==
  /\ UNCHANGED fueraDeCfg
  /\ \E p \in abiertos \ Referenciados :
       abiertos' = abiertos \ {p}
  /\ UNCHANGED << reg, pc, idx, cand, canal, serie_detectada, paso, resultado,
                  bitacora, sonda, fallos, fallidas >>


\* ---------------------------------------- ejecutar_comando, step by step
\* the bytes of a device's output: a letter, the two prompt markers, a line
\* break (white space)
Bytes == {"x", "#", ">", "\n"}

Textos(n) == UNION { [1..k -> Bytes] : k \in 0..n }

\* leer_hasta_prompt(conexion, timeout=1.2) as ejecutar_comando calls it, in ms
Timeout == 1200
\* time.sleep(0.2), in ms
Intervalo == 200
\* values of the pausa argument, in ms (0.3 and 0.5 s)
Pausas == {300, 500}

\* the synthetic result of a failed exchange
MsgError == << "[ERROR al enviar" >>

\* re.search(r"[>#]\s*$", buf)
EsMarca(c) == c \in {">", "#"}
TerminaEnPrompt(t) == LET r == RStrip(t) IN r # << >> /\ EsMarca(r[Len(r)])

\* the loop test with the boundary included
SigueBucleInclusivo(ahora, f) == ahora <= f

\* `while time.time() < fin`
SigueBucle(ahora, f) == ahora < f

\* a read or a write of the channel raises inside ejecutar_comando's try block
FallaES(donde) ==
  \E e \in ErroresIO :
    /\ falloEn' = donde
    /\ IF CapturaEjecutar(e)
       THEN pcL' = "ret" /\ retorno' = MsgError
       ELSE pcL' = "propaga" /\ UNCHANGED retorno

\* a read whose bytes stay in the receive buffer
SinDrenar(b) == b

\* the receive buffer after conexion.read(conexion.in_waiting or 0)
TrasDrenar(b) == << >>

\* conexion.read(conexion.in_waiting or 0): the stale bytes are discarded
Drenar ==
  /\ pcL = "drenar"
  /\ \E bien \in BOOLEAN :
       IF bien
       THEN /\ enBuffer' = TrasDrenar(enBuffer)
            /\ pcL' = "escribir"
            /\ UNCHANGED << falloEn, retorno >>
       ELSE FallaES("drenar") /\ UNCHANGED enBuffer
  /\ UNCHANGED << pausa, reloj, fin, porLlegar, respuesta, salida, buf, sondeos,
                  porPrompt >>
  /\ UNCHANGED << habiaViejos, eco, host_visto >>
  /\ UNCHANGED fueraDeLeer

\* conexion.write(...): the device starts to answer
Escribir ==
  /\ pcL = "escribir"
  /\ \E bien \in BOOLEAN :
       IF bien
       THEN /\ porLlegar' = respuesta
            /\ pcL' = "pausa"
            /\ UNCHANGED << falloEn, retorno >>
       ELSE FallaES("escribir") /\ UNCHANGED porLlegar
  /\ UNCHANGED << pausa, reloj, fin, enBuffer, respuesta, salida, buf, sondeos,
                  porPrompt >>
  /\ UNCHANGED << habiaViejos, eco, host_visto >>
  /\ UNCHANGED fueraDeLeer

\* time.sleep(pausa)
Pausa ==
  /\ pcL = "pausa"
  /\ reloj' = reloj + pausa
  /\ pcL' = "leer1"
  /\ UNCHANGED << pausa, fin, enBuffer, porLlegar, respuesta, salida, buf,
                  sondeos, porPrompt, falloEn, retorno >>
  /\ UNCHANGED << habiaViejos, eco, host_visto >>
  /\ UNCHANGED fueraDeLeer

\* salida = conexion.read(...); then leer_hasta_prompt starts: fin, buf = ""
Leer1 ==
  /\ pcL = "leer1"
  /\ \E bien \in BOOLEAN :
       IF bien
       THEN /\ salida' = enBuffer
            /\ enBuffer' = << >>
            /\ fin' = reloj + Timeout
            /\ pcL' = "bucle"
            /\ UNCHANGED << falloEn, retorno >>
       ELSE FallaES("leer1") /\ UNCHANGED << salida, enBuffer, fin >>
  /\ UNCHANGED << pausa, reloj, porLlegar, respuesta, buf, sondeos, porPrompt >>
  /\ UNCHANGED << habiaViejos, eco, host_visto >>
  /\ UNCHANGED fueraDeLeer

\* one turn of the loop: sleep 0.2 s, read what is there, look for the prompt
Sondeo ==
  /\ pcL = "bucle"
  /\ SigueBucle(reloj, fin)
  /\ \E j \in {0, JitterMs} : reloj' = reloj + Intervalo + j
  /\ sondeos' = sondeos + 1
  /\ \E bien \in BOOLEAN :
       IF bien
       THEN /\ enBuffer' = << >>
            /\ UNCHANGED falloEn
            /\ IF enBuffer # << >>
               THEN /\ buf' = buf \o enBuffer
                    /\ IF TerminaEnPrompt(buf')
                       THEN /\ porPrompt' = TRUE
                            /\ retorno' = salida \o buf'
                            /\ pcL' = "ret"
                       ELSE UNCHANGED << porPrompt, retorno, pcL >>
               ELSE UNCHANGED << buf, porPrompt, retorno, pcL >>
       ELSE FallaES("bucle") /\ UNCHANGED << enBuffer, buf, porPrompt >>
  /\ UNCHANGED << pausa, fin, porLlegar, respuesta, salida >>
  /\ UNCHANGED << habiaViejos, eco, host_visto >>
  /\ UNCHANGED fueraDeLeer

\* the loop test fails: leer_hasta_prompt returns buf, ejecutar_comando salida
FinBucle ==
  /\ pcL = "bucle"
  /\ ~SigueBucle(reloj, fin)
  /\ retorno' = salida \o buf
  /\ pcL' = "ret"
  /\ UNCHANGED << pausa, reloj, fin, enBuffer, porLlegar, respuesta, salida, buf,
                  sondeos, porPrompt, falloEn >>
  /\ UNCHANGED << habiaViejos, eco, host_visto >>
  /\ UNCHANGED fueraDeLeer

\* the next byte of the device's answer reaches the receive buffer
Llegar ==
  /\ pcL \notin {"propaga", "inactivo", "confirmado", "falla_eco"}
  /\ porLlegar # << >>
  /\ enBuffer' = Append(enBuffer, Head(porLlegar))
  /\ porLlegar' = Tail(porLlegar)
  /\ UNCHANGED << pcL, pausa, reloj, fin, respuesta, salida, buf, sondeos,
                  porPrompt, falloEn, retorno >>
  /\ UNCHANGED << habiaViejos, eco, host_visto >>
  /\ UNCHANGED fueraDeLeer

NO_DETECTADO == << "NO_DETECTADO" >>

\* [A-Za-z0-9\-_]
EsDeNombre(c) == EsAlnum(c) \/ c \in {"-", "_"}

\* \n([A-Za-z0-9\-_]+)#\s*$ matches from position i
HayPromptDesde(t, i) ==
  /\ t[i] = "\n"
  /\ \E k \in (i + 1)..(Len(t) - 1) :
       /\ \A j \in (i + 1)..k : EsDeNombre(t[j])
       /\ t[k + 1] = "#"
       /\ \A j \in (k + 2)..Len(t) : EsBlanco(t[j])

\* m = re.search(r"\n([A-Za-z0-9\-_]+)#\s*$", echo);
\* host_visto = m.group(1) if m else "NO_DETECTADO"
HostVisto(t) ==
  IF \E i \in 1..Len(t) : HayPromptDesde(t, i)
  THEN LET i == CHOOSE h \in 1..Len(t) :
                  /\ HayPromptDesde(t, h)
                  /\ \A g \in 1..(h - 1) : ~HayPromptDesde(t, g)
           k == CHOOSE h \in (i + 1)..(Len(t) - 1) :
                  /\ \A j \in (i + 1)..h : EsDeNombre(t[j])
                  /\ t[h + 1] = "#"
       IN  SubSeq(t, i + 1, k)
  ELSE NO_DETECTADO

\* step 4 of aplicar_config after ejecutar_comando(canal, "") has returned:
\* echo = canal.read(canal.in_waiting or 0), and the hostname pattern.  The
\* frames of ejecutar_comando and leer_hasta_prompt are gone: their locals are
\* no longer part of the state (the value returned is kept, though
\* aplicar_config drops it).
LeerEco ==
  /\ pcL = "ret"
  /\ \E bien \in BOOLEAN :
       IF bien
       THEN /\ eco' = enBuffer
            /\ enBuffer' = << >>
            /\ host_visto' = HostVisto(eco')
            /\ pcL' = "confirmado"
       ELSE /\ pcL' = "falla_eco"
            /\ UNCHANGED << eco, enBuffer, host_visto >>
  /\ fin' = 0
  /\ salida' = << >>
  /\ buf' = << >>
  /\ sondeos' = 0
  /\ porPrompt' = FALSE
  /\ UNCHANGED << pausa, reloj, porLlegar, respuesta, falloEn, retorno,
                  habiaViejos >>
  /\ UNCHANGED fueraDeLeer

InitLeer ==
  /\ pcL = "drenar"
  /\ pausa \in Pausas
  /\ reloj = 0
  /\ fin = 0
  /\ enBuffer \in Textos(MaxViejos)
  /\ porLlegar = << >>
  /\ respuesta \in Textos(MaxResp)
  /\ salida = << >>
  /\ buf = << >>
  /\ sondeos = 0
  /\ porPrompt = FALSE
  /\ falloEn = "ninguno"
  /\ retorno = << >>
  /\ habiaViejos = (enBuffer # << >>)
  /\ eco = << >>
  /\ host_visto = << >>

\* no call of ejecutar_comando is being followed step by step
LeerInactivo ==
  /\ pcL = "inactivo"
  /\ pausa = 0
  /\ reloj = 0
  /\ fin = 0
  /\ enBuffer = << >>
  /\ porLlegar = << >>
  /\ respuesta = << >>
  /\ salida = << >>
  /\ buf = << >>
  /\ sondeos = 0
  /\ porPrompt = FALSE
  /\ falloEn = "ninguno"
  /\ retorno = << >>
  /\ habiaViejos = FALSE
  /\ eco = << >>
  /\ host_visto = << >>

\* aplicar_config is not running
CfgInactivo ==
  /\ reg = [puerto |-> "COM3", hostname |-> "R_Lab1", usuario |-> "",
            clave |-> "", dominio |-> "", serie_csv |-> <<"B", "2">>]
  /\ pc = "inactivo"
  /\ idx = 1
  /\ cand = NingunCanal
  /\ canal = NingunCanal
  /\ serie_detectada = Ninguna
  /\ paso = 1
  /\ resultado = "pendiente"
  /\ abiertos = {}
  /\ bitacora = << >>
  /\ sonda = << >>
  /\ fallos = 0
  /\ fallidas = {}

\* proceso_desde_csv is not running
LoteInactivo ==
  /\ tabla = << >>
  /\ cola = << >>
  /\ pos = 0
  /\ ok = << >>
  /\ fail = << >>
  /\ pcLote = "inactivo"
  /\ intentos = << >>
  /\ devueltos = << >>

\* neither buscar_serial's patterns nor the comparison are being applied
SerieInactivo ==
  /\ pcT = "inactivo"
  /\ resp = << >>
  /\ extraida = << >>
  /\ detectada = << >>
  /\ esperada = << >>
  /\ valida = FALSE

\* ir_a_enable is not being followed step by step
EnableInactivo ==
  /\ pcE = "inactivo"
  /\ clave_enable = ""
  /\ anuncio = << >>
  /\ leida = << >>
  /\ escritasE = << >>
  /\ promptLeido = 0

AparteInactivo == SerieInactivo /\ EnableInactivo

InitL == CfgInactivo /\ LoteInactivo /\ AparteInactivo /\ InitLeer

NextLeer ==
  \/ Drenar
  \/ Escribir
  \/ Pausa
  \/ Leer1
  \/ Sondeo
  \/ FinBucle
  \/ Llegar
  \/ LeerEco

SpecLeer == InitL /\ [][NextLeer]_vars

Init ==
  /\ LeerInactivo
  /\ LoteInactivo
  /\ AparteInactivo
  /\ reg \in Registros
  /\ pc = "inicio"
  /\ idx = 1
  /\ cand = NingunCanal
  /\ canal = NingunCanal
  /\ serie_detectada = Ninguna
  /\ paso = 1
  /\ resultado = "pendiente"
  /\ abiertos = {}
  /\ bitacora = << >>
  /\ sonda = << >>
  /\ fallos = 0
  /\ fallidas = {}

Next ==
  \/ Inicio
  \/ AbrirFijo
  \/ AutoAgotado
  \/ ProbarAbrir
  \/ ProbarBanner
  \/ BuscarTL0
  \/ BuscarInventario
  \/ ProbarDecide
  \/ Validar
  \/ IrAEnable
  \/ EjecutarPaso
  \/ ConfirmarEnter
  \/ ConfirmarEco
  \/ Interrumpir
  \/ RecolectarBasura

Spec == Init /\ [][Next]_vars

\* ------------------------------------------------------- proceso_desde_csv
\* the characters of the names of the model
Letras(n) ==
  CASE n = "R_Lab1" -> <<"R", "_", "L", "a", "b", "1">>
    [] n = "SW1" -> <<"S", "W", "1">>
    [] n = "admin" -> <<"a", "d", "m", "i", "n">>
    [] OTHER -> << >>

\* str.startswith
EmpiezaCon(n, prefijo) ==
  /\ Len(Letras(n)) >= Len(prefijo)
  /\ SubSeq(Letras(n), 1, Len(prefijo)) = prefijo

SYNC_USER_WITH_DEVICE == TRUE
SYNC_ONLY_IF_R_PREFIX == TRUE

\* the row's user kept whatever the device is called
UsuarioSinSincronizar(device, user) == user

\* user_final: the device's name replaces the user of an R_ device
UsuarioFinal(device, user) ==
  IF SYNC_USER_WITH_DEVICE
     /\ (~SYNC_ONLY_IF_R_PREFIX \/ EmpiezaCon(device, <<"R", "_">>))
  THEN device
  ELSE user

\* a router reached through autodetection, with user, password and domain
FilaEjemplo ==
  [ Serie |-> <<"A", "1">>, Port |-> "auto", Device |-> "R_Lab1",
    User |-> "admin", Password |-> "Secr3t", IpDomain |-> "lab.local" ]

\* a switch on an explicit port, without a domain
FilaSwitch ==
  [ Serie |-> <<"B", "2", " ">>, Port |-> "COM3", Device |-> "SW1",
    User |-> "admin", Password |-> "Secr3t", IpDomain |-> "" ]

Filas == {FilaEjemplo, FilaSwitch}

\* the files: any of the rows, in any order, each device listed once
Tablas ==
  { t \in UNION { [1..n -> Filas] : n \in 0..Cardinality(Filas) } :
      \A i, j \in 1..Len(t) : t[i] = t[j] => i = j }

\* one entry of cola_de_trabajo (the names and the port are trimmed already;
\* Baud is left out)
RegistroDe(f) ==
  [ puerto |-> f.Port,
    hostname |-> f.Device,
    usuario |-> UsuarioFinal(f.Device, f.User),
    clave |-> f.Password,
    dominio |-> f.IpDomain,
    serie_csv |-> Strip(f.Serie) ]

\* the loop that builds cola_de_trabajo
ConstruirCola ==
  /\ pcLote = "construir"
  /\ cola' = [i \in 1..Len(tabla) |-> RegistroDe(tabla[i])]
  /\ pcLote' = "bucle"
  /\ UNCHANGED << tabla, pos, ok, fail, intentos, devueltos >>
  /\ UNCHANGED << varsCfg, fueraDeLote >>

\* the next entry of the worklist: aplicar_config is called for it
Siguiente ==
  /\ pcLote = "bucle"
  /\ pos < Len(cola)
  /\ pos' = pos + 1
  /\ intentos' = Append(intentos, pos + 1)
  /\ pcLote' = "equipo"
  /\ reg' = cola[pos + 1]
  /\ pc' = "inicio"
  /\ idx' = 1
  /\ cand' = NingunCanal
  /\ canal' = NingunCanal
  /\ serie_detectada' = Ninguna
  /\ paso' = 1
  /\ resultado' = "pendiente"
  /\ bitacora' = << >>
  /\ sonda' = << >>
  /\ fallos' = 0
  /\ fallidas' = {}
  /\ UNCHANGED << abiertos, tabla, cola, ok, fail, devueltos >>
  /\ UNCHANGED fueraDeLote

\* a value that is always true
ExitoSiempre(res) == TRUE

\* `if aplicar_config(...)`
Exito(res) == res = "True"

\* aplicar_config returned: ok.append(dev) or fail.append(dev)
Anotar ==
  /\ pcLote = "equipo"
  /\ pc = "retorno"
  /\ IF Exito(resultado)
     THEN ok' = Append(ok, reg.hostname) /\ UNCHANGED fail
     ELSE fail' = Append(fail, reg.hostname) /\ UNCHANGED ok
  /\ devueltos' = Append(devueltos, resultado)
  /\ pcLote' = "bucle"
  /\ UNCHANGED << tabla, cola, pos, intentos >>
  /\ UNCHANGED << varsCfg, fueraDeLote >>

\* the worklist is exhausted: the summary is printed
Resumen ==
  /\ pcLote = "bucle"
  /\ pos = Len(cola)
  /\ pcLote' = "fin"
  /\ UNCHANGED << tabla, cola, pos, ok, fail, intentos, devueltos >>
  /\ UNCHANGED << varsCfg, fueraDeLote >>

InitLote ==
  /\ CfgInactivo
  /\ LeerInactivo
  /\ AparteInactivo
  /\ tabla \in Tablas
  /\ cola = << >>
  /\ pos = 0
  /\ ok = << >>
  /\ fail = << >>
  /\ pcLote = "construir"
  /\ intentos = << >>
  /\ devueltos = << >>

NextLote ==
  \/ ConstruirCola
  \/ Siguiente
  \/ Anotar
  \/ Resumen
  \/ Inicio
  \/ AbrirFijo
  \/ AutoAgotado
  \/ ProbarAbrir
  \/ ProbarBanner
  \/ BuscarTL0
  \/ BuscarInventario
  \/ ProbarDecide
  \/ Validar
  \/ IrAEnable
  \/ EjecutarPaso
  \/ ConfirmarEnter
  \/ ConfirmarEco
  \/ Interrumpir
  \/ RecolectarBasura

SpecLote == InitLote /\ [][NextLote]_vars

\* ------------------- buscar_serial's patterns and the comparison, on texts
\* pieces a response to show inventory is made of
MaxPiezas == 4
\* characters of a serial given to the comparison
MaxSerie == 3

\* the literal lit stands in t at position i (as written / in any case)
EstaEn(t, i, lit) ==
  /\ i + Len(lit) - 1 <= Len(t)
  /\ SubSeq(t, i, i + Len(lit) - 1) = lit
EstaEnSinCaja(t, i, lit) ==
  /\ i + Len(lit) - 1 <= Len(t)
  /\ Upper(SubSeq(t, i, i + Len(lit) - 1)) = Upper(lit)

\* \s*: the first position from i on that holds no blank
RECURSIVE TrasBlancos(_, _)
TrasBlancos(t, i) ==
  IF i <= Len(t) /\ EsBlanco(t[i]) THEN TrasBlancos(t, i + 1) ELSE i

\* ([A-Z0-9]+): the longest run of the class that starts at position i
RECURSIVE Racha(_, _, _)
Racha(t, i, sinCaja) ==
  IF i <= Len(t) /\ EsDeClase(t[i], sinCaja)
  THEN << t[i] >> \o Racha(t, i + 1, sinCaja)
  ELSE << >>

EtiquetaSN == <<"S", "N", ":">>
EtiquetaSerial ==
  <<"S", "e", "r", "i", "a", "l", " ", "N", "u", "m", "b", "e", "r">>
EtiquetaSlash == <<"S", "/", "N">>

\* SN:\s*([A-Z0-9]+) matches at position i
HaySN(t, i, sinCaja) ==
  /\ EstaEn(t, i, EtiquetaSN)
  /\ LET j == TrasBlancos(t, i + Len(EtiquetaSN))
     IN  j <= Len(t) /\ EsDeClase(t[j], sinCaja)

\* group 1 of the leftmost match of SN:\s*([A-Z0-9]+), none without a match
GrupoSN(t, sinCaja) ==
  IF \E i \in 1..Len(t) : HaySN(t, i, sinCaja)
  THEN LET i == CHOOSE k \in 1..Len(t) :
                  /\ HaySN(t, k, sinCaja)
                  /\ \A h \in 1..(k - 1) : ~HaySN(t, h, sinCaja)
       IN  Racha(t, TrasBlancos(t, i + Len(EtiquetaSN)), sinCaja)
  ELSE Ninguna

\* re.search(r"SN:\s*([A-Z0-9]+)", resp)
PatronSN(t) == GrupoSN(t, FALSE)

\* (Serial Number|S/N) under re.IGNORECASE: the position after the label that
\* stands at position i, 0 if none does
TrasEtiqueta(t, i) ==
  IF EstaEnSinCaja(t, i, EtiquetaSerial) THEN i + Len(EtiquetaSerial)
  ELSE IF EstaEnSinCaja(t, i, EtiquetaSlash) THEN i + Len(EtiquetaSlash)
  ELSE 0

\* \s*[:#]?\s* from position j on
TrasSeparador(t, j) ==
  LET k == TrasBlancos(t, j)
  IN  IF k <= Len(t) /\ t[k] \in {":", "#"} THEN TrasBlancos(t, k + 1) ELSE k

HayEtiqueta(t, i) ==
  /\ TrasEtiqueta(t, i) # 0
  /\ LET j == TrasSeparador(t, TrasEtiqueta(t, i))
     IN  j <= Len(t) /\ EsAlnum(t[j])

\* group 2 of the leftmost match of
\* re.search(r"(Serial Number|S/N)\s*[:#]?\s*([A-Z0-9]+)", resp, re.IGNORECASE)
PatronEtiqueta(t) ==
  IF \E i \in 1..Len(t) : HayEtiqueta(t, i)
  THEN LET i == CHOOSE k \in 1..Len(t) :
                  /\ HayEtiqueta(t, k)
                  /\ \A h \in 1..(k - 1) : ~HayEtiqueta(t, h)
       IN  Racha(t, TrasSeparador(t, TrasEtiqueta(t, i)), TRUE)
  ELSE Ninguna

\* buscar_serial on the response resp of show inventory
SerialEn(t) ==
  IF PatronSN(t) # Ninguna THEN Strip(PatronSN(t))
  ELSE IF PatronEtiqueta(t) # Ninguna THEN Strip(PatronEtiqueta(t))
  ELSE Ninguna

\* what the responses of the model are made of: the labels, separators and
\* serials in upper, lower and mixed case
Piezas ==
  { EtiquetaSN, EtiquetaSlash, <<"s", "/", "n">>, EtiquetaSerial,
    <<" ">>, <<":">>, <<"A", "1">>, <<"a", "1">>, <<"A", "b">> }

RECURSIVE Concatenar(_)
Concatenar(ps) == IF ps = << >> THEN << >> ELSE Head(ps) \o Concatenar(Tail(ps))

Inventarios ==
  { Concatenar(ps) : ps \in UNION { [1..n -> Piezas] : n \in 0..MaxPiezas } }

\* serials as texts: letters in both cases, a digit, blanks
SeriesTexto == UNION { [1..n -> {"a", "A", "1", " "}] : n \in 0..MaxSerie }

\* buscar_serial applies its patterns to the response
ExtraerSerial ==
  /\ pcT = "inventario"
  /\ extraida' = SerialEn(resp)
  /\ pcT' = "extraida"
  /\ UNCHANGED << resp, detectada, esperada, valida >>
  /\ UNCHANGED << varsCfg, varsLeer, varsLote, varsEnable >>

\* step 2 of aplicar_config on a detected and an expected serial
CompararSerie ==
  /\ pcT = "comparar"
  /\ valida' = PasaValidacion(detectada, esperada)
  /\ pcT' = "comparada"
  /\ UNCHANGED << resp, extraida, detectada, esperada >>
  /\ UNCHANGED << varsCfg, varsLeer, varsLote, varsEnable >>

InitSerie ==
  /\ CfgInactivo
  /\ LeerInactivo
  /\ LoteInactivo
  /\ EnableInactivo
  /\ extraida = << >>
  /\ valida = FALSE
  /\ \/ /\ pcT = "inventario"
        /\ resp \in Inventarios
        /\ detectada = << >>
        /\ esperada = << >>
     \/ /\ pcT = "comparar"
        /\ resp = << >>
        /\ detectada \in SeriesTexto
        /\ esperada \in SeriesTexto

NextSerie ==
  \/ ExtraerSerial
  \/ CompararSerie

SpecSerie == InitSerie /\ [][NextSerie]_vars

\* --------------------------------------------- ir_a_enable, step by step
\* pieces of the device's answer to enable
MaxAnuncio == 2

\* leer_hasta_prompt(conexion, timeout=3.0), in ms
TimeoutEnable == 3000

PasswordP == <<"P", "a", "s", "s", "w", "o", "r", "d">>
PasswordMin == <<"p", "a", "s", "s", "w", "o", "r", "d">>
PasswordMayus == <<"P", "A", "S", "S", "W", "O", "R", "D">>

\* re.search(r"[Pp]assword", salida)
PidePassword(t) ==
  \E i \in 1..Len(t) : EstaEn(t, i, PasswordP) \/ EstaEn(t, i, PasswordMin)

\* what a device answers to enable: a password request in some letter case,
\* a prompt, or both
Anuncios ==
  { Concatenar(ps) :
      ps \in UNION { [1..n -> {PasswordP, PasswordMin, PasswordMayus, <<":">>,
                               <<" ">>, <<"R", "1", "#">>}] :
                      n \in 0..MaxAnuncio } }

\* a read or a write raises: ir_a_enable has no try block
FallaEnable ==
  /\ pcE' = "propaga"
  /\ UNCHANGED << leida, escritasE, promptLeido >>

\* _ = conexion.read(conexion.in_waiting or 0)
DrenarEnable ==
  /\ pcE = "drenar"
  /\ \/ pcE' = "escribir" /\ UNCHANGED << leida, escritasE, promptLeido >>
     \/ FallaEnable
  /\ UNCHANGED << clave_enable, anuncio >>
  /\ UNCHANGED << varsCfg, varsLeer, varsLote, varsSerie >>

\* conexion.write(b"enable\r\n")
EscribirEnable ==
  /\ pcE = "escribir"
  /\ \/ /\ escritasE' = Append(escritasE, Enable)
        /\ pcE' = "leer"
        /\ UNCHANGED << leida, promptLeido >>
     \/ FallaEnable
  /\ UNCHANGED << clave_enable, anuncio >>
  /\ UNCHANGED << varsCfg, varsLeer, varsLote, varsSerie >>

\* sleep 0.4 s; salida = conexion.read(...): what has arrived of the answer;
\* then the test for a password request
LeerEnable ==
  /\ pcE = "leer"
  /\ \/ /\ \E k \in 0..Len(anuncio) : leida' = SubSeq(anuncio, 1, k)
        /\ pcE' = IF PidePassword(leida') THEN "clave" ELSE "prompt"
        /\ UNCHANGED << escritasE, promptLeido >>
     \/ FallaEnable
  /\ UNCHANGED << clave_enable, anuncio >>
  /\ UNCHANGED << varsCfg, varsLeer, varsLote, varsSerie >>

\* the password, or an empty line, is written
EscribirClave ==
  /\ pcE = "clave"
  /\ \/ /\ escritasE' = Append(escritasE, LineaClave(clave_enable))
        /\ pcE' = "leer_clave"
        /\ UNCHANGED << leida, promptLeido >>
     \/ FallaEnable
  /\ UNCHANGED << clave_enable, anuncio >>
  /\ UNCHANGED << varsCfg, varsLeer, varsLote, varsSerie >>

\* sleep; salida += conexion.read(...)
LeerTrasClave ==
  /\ pcE = "leer_clave"
  /\ \/ pcE' = "prompt" /\ UNCHANGED << leida, escritasE, promptLeido >>
     \/ FallaEnable
  /\ UNCHANGED << clave_enable, anuncio >>
  /\ UNCHANGED << varsCfg, varsLeer, varsLote, varsSerie >>

\* salida += leer_hasta_prompt(conexion, timeout=3.0); return salida
LeerPromptEnable ==
  /\ pcE = "prompt"
  /\ \/ /\ promptLeido' = TimeoutEnable
        /\ pcE' = "ret"
        /\ UNCHANGED << leida, escritasE >>
     \/ FallaEnable
  /\ UNCHANGED << clave_enable, anuncio >>
  /\ UNCHANGED << varsCfg, varsLeer, varsLote, varsSerie >>

InitEnable ==
  /\ CfgInactivo
  /\ LeerInactivo
  /\ LoteInactivo
  /\ SerieInactivo
  /\ pcE = "drenar"
  /\ clave_enable \in {"", "Secr3t"}
  /\ anuncio \in Anuncios
  /\ leida = << >>
  /\ escritasE = << >>
  /\ promptLeido = 0

NextEnable ==
  \/ DrenarEnable
  \/ EscribirEnable
  \/ LeerEnable
  \/ EscribirClave
  \/ LeerTrasClave
  \/ LeerPromptEnable

SpecEnable == InitEnable /\ [][NextEnable]_vars

\* ------------------------------------------------------------------ claims
\* the lines written to the channels, in order
LineasEscritas ==
  LET w == SelectSeq(bitacora, LAMBDA e : e.op = "escribir")
  IN  [i \in 1..Len(w) |-> w[i].linea]

\* the commands among them (a bare line break is no command)
ComandosEscritos == SelectSeq(LineasEscritas, LAMBDA l : l # LineaVacia)

Contiene(sq, x) == \E i \in 1..Len(sq) : sq[i] = x

\* x occurs in sq, and some y occurs before its first occurrence
Precede(sq, y, x) ==
  \A j \in 1..Len(sq) : sq[j] = x => \E i \in 1..(j - 1) : sq[i] = y

NoCoincide ==
  \/ serie_detectada = Ninguna
  \/ Upper(Strip(serie_detectada)) # Upper(Strip(reg.serie_csv))

\* C1: while the probed serial is absent or differs from the expected one
\* (trimmed, case-insensitively), the only commands written to any channel are
\* the probe commands terminal length 0 and show inventory, and when
\* aplicar_config returns, it returns False.
C1_SinConfiguracionSiSerieNoCoincide ==
  NoCoincide =>
    /\ \A i \in 1..Len(bitacora) :
         (bitacora[i].op = "escribir" /\ bitacora[i].linea # LineaVacia)
           => bitacora[i].linea \in {TL0, ShowInv}
    /\ pc = "retorno" => resultado = "False"

\* C1's case: a device answered with a serial that is not the expected one and
\* aplicar_config returned after probing it
C1_Testigo ==
  /\ pc = "retorno"
  /\ resultado = "False"
  /\ serie_detectada # Ninguna
  /\ Upper(Strip(serie_detectada)) # Upper(Strip(reg.serie_csv))
  /\ Contiene(ComandosEscritos, ShowInv)

\* C2: aplicar_config returns True only if the detected serial equals the
\* expected one case-insensitively and no command of the configuration
\* sequence hit a read or write failure.
C2_ExitoSoloSinFalloDeES ==
  resultado = "True" =>
    /\ ~NoCoincide
    /\ \A f \in fallidas : f.fase # "config"

\* C3: when aplicar_config has returned (True or False), no channel it opened
\* is still open.
C3_CanalCerradoAlRetornar == pc = "retorno" => abiertos = {}

\* the program's last open or close of port p is a close
CierreIntentado(p) ==
  LET es == SelectSeq(bitacora, LAMBDA e : e.puerto = p /\ e.op \in {"abrir", "cerrar"})
  IN  es # << >> => es[Len(es)].op = "cerrar"

\* C4: when an interrupt has unwound out of aplicar_config, a close was
\* attempted on every channel opened for the device.
C4_CierreAlInterrumpir ==
  pc = "interrumpido" => \A i \in 1..Len(Puertos) : CierreIntentado(Puertos[i])

LineasSSH == {Crypto, LineVty, LoginLocal, TransIn, TransOut, SshV2}

\* C5: the SSH commands and ip domain-name are written only when the record's
\* domain is non-empty; and a run that succeeds with an empty domain has still
\* written hostname, no ip domain-lookup, service password-encryption, end and
\* write memory.
C5_SSHSoloConDominio ==
  /\ \A i \in 1..Len(LineasEscritas) :
       LET l == LineasEscritas[i]
       IN  (l \in LineasSSH \/ (Len(l) = 2 /\ l[1] = "ip domain-name"))
             => reg.dominio # ""
  /\ (pc = "retorno" /\ resultado = "True" /\ reg.dominio = "") =>
       \A l \in {Hostname(reg.hostname), NoLookup, PwdEnc, End, WriteMem} :
         Contiene(LineasEscritas, l)

\* the domain gate alone: no SSH command and no ip domain-name with an empty
\* domain
SSHSoloSiHayDominio ==
  \A i \in 1..Len(LineasEscritas) :
    LET l == LineasEscritas[i]
    IN  (l \in LineasSSH \/ (Len(l) = 2 /\ l[1] = "ip domain-name"))
          => reg.dominio # ""

\* the order the claim lists
OrdenFijo(r) ==
  << Enable, ConfT, Hostname(r.hostname), Username(r.usuario, r.clave),
     IpDomain(r.dominio), NoLookup, PwdEnc, Crypto, LineVty, LoginLocal,
     TransIn, TransOut, SshV2, End, WriteMem >>

Rango(r, l) == CHOOSE k \in 1..Len(OrdenFijo(r)) : OrdenFijo(r)[k] = l

\* C6: the commands of the fixed list are written in the list's order; ip
\* domain-name is written before crypto key generate rsa, login local before
\* transport input/output ssh, end before write memory, and write memory is the
\* last of them.
C6_OrdenFijo ==
  LET L == SelectSeq(LineasEscritas, LAMBDA l : Contiene(OrdenFijo(reg), l))
  IN  /\ \A i, j \in 1..Len(L) : i < j => Rango(reg, L[i]) < Rango(reg, L[j])
      /\ Precede(L, IpDomain(reg.dominio), Crypto)
      /\ Precede(L, LoginLocal, TransIn)
      /\ Precede(L, LoginLocal, TransOut)
      /\ Precede(L, End, WriteMem)
      /\ \A i \in 1..Len(L) : L[i] = WriteMem => i = Len(L)

\* the order alone: what is written of the list is written in the list's order
OrdenNuncaPermutado ==
  LET L == SelectSeq(LineasEscritas, LAMBDA l : Contiene(OrdenFijo(reg), l))
  IN  \A i, j \in 1..Len(L) : i < j => Rango(reg, L[i]) < Rango(reg, L[j])

\* autodetectar_conexion returned a channel / returned (None, None, None)
AutoHallado == EsAuto(reg.puerto) /\ canal # NingunCanal
AutoSinHallazgo == EsAuto(reg.puerto) /\ pc = "retorno" /\ canal = NingunCanal

\* the ports that were opened or written to
PuertosTocados == { bitacora[i].puerto : i \in 1..Len(bitacora) }

Min(a, b) == IF a < b THEN a ELSE b

\* C9: the candidates are probed in list order; probing stops at the first one
\* that yields a serial, whose channel, port and serial are returned; no later
\* candidate is opened or written to; (None, None, None) is returned exactly
\* when no candidate yields a serial.
C9_PrimerCandidatoGana ==
  /\ \A i \in 1..Len(sonda) : sonda[i].puerto = Puertos[i]
  /\ \A i \in 1..(Len(sonda) - 1) : sonda[i].serie = Ninguna
  /\ EsAuto(reg.puerto) =>
       PuertosTocados \subseteq { Puertos[k] : k \in 1..Min(Len(sonda) + 1, Len(Puertos)) }
  /\ AutoHallado =>
       /\ sonda # << >>
       /\ sonda[Len(sonda)].serie # Ninguna
       /\ canal = sonda[Len(sonda)].puerto
       /\ serie_detectada = sonda[Len(sonda)].serie
       /\ PuertosTocados \subseteq { Puertos[k] : k \in 1..Len(sonda) }
  /\ AutoSinHallazgo =>
       /\ Len(sonda) = Len(Puertos)
       /\ \A i \in 1..Len(sonda) : sonda[i].serie = Ninguna
  /\ (EsAuto(reg.puerto) /\ pc = "retorno") =>
       (AutoHallado <=> \E i \in 1..Len(sonda) : sonda[i].serie # Ninguna)

\* C9's case: the first candidate was opened and yielded no serial, the second
\* one yielded a serial and was returned
C9_Testigo ==
  /\ AutoHallado
  /\ Len(sonda) = 2
  /\ Contiene(bitacora, Ev("abrir", Puertos[1], <<>>))

\* C7: when the text ejecutar_comando returns ends in a prompt marker (> or #,
\* optionally followed by whitespace), the secondary read loop was left by
\* prompt detection and not by running to its timeout.
C7_DetieneAntesDelTimeout ==
  (pcL = "ret" /\ falloEn = "ninguno" /\ TerminaEnPrompt(retorno)) => porPrompt

\* C8: leer_hasta_prompt never polls more often than its timeout allows; and
\* when the text it accumulated does not end in a prompt marker, it returns
\* with the timeout elapsed, after exactly the timeout's worth of 0.2 s polls,
\* and what is returned is all that was read: no byte of the answer is lost.
C8_RetornaAlTimeout ==
  /\ sondeos <= Timeout \div Intervalo
  /\ (pcL = "ret" /\ falloEn = "ninguno" /\ ~TerminaEnPrompt(buf)) =>
       /\ ~porPrompt
       /\ reloj >= fin
       /\ sondeos = Timeout \div Intervalo
       /\ retorno = salida \o buf
       /\ retorno \o enBuffer \o porLlegar = respuesta

\* C8's case: the device kept sending bytes that are no prompt, and the loop
\* returned them at its timeout
C8_Testigo ==
  /\ pcL = "ret"
  /\ falloEn = "ninguno"
  /\ buf # << >>
  /\ ~TerminaEnPrompt(buf)
  /\ sondeos = Timeout \div Intervalo

\* ejecutar_comando has returned
Retornado == pcL \in {"ret", "confirmado", "falla_eco"}

\* C10: no I/O failure leaves ejecutar_comando as an exception: whenever the
\* drain read, the write or a later read has failed, ejecutar_comando has
\* returned the synthetic error string; it returns that string in no other case.
C10_NoPropagaFalloES ==
  /\ pcL # "propaga"
  /\ falloEn # "ninguno" => (Retornado /\ retorno = MsgError)
  /\ (Retornado /\ falloEn = "ninguno") => retorno # MsgError

\* C10's case: a read of the secondary loop failed after the command was
\* written and part of the answer read
C10_Testigo ==
  /\ falloEn = "bucle"
  /\ pcL = "ret"
  /\ retorno = MsgError
  /\ sondeos >= 2
  /\ buf # << >>

\* the device of the example row: the commands it must receive
ComandosEjemplo ==
  { Hostname("R_Lab1"), Username("R_Lab1", "Secr3t"), IpDomain("lab.local"),
    Crypto, LineVty, LoginLocal, TransIn, TransOut, SshV2 }

\* the call for worklist entry pos has returned and was recorded
Anotado == pcLote \in {"bucle", "fin"} /\ pos >= 1

\* C11: when the row {Serie A1, Port auto, Device R_Lab1, User admin, Password
\* Secr3t, Ip-domain lab.local} is processed by proceso_desde_csv, the device
\* answers show inventory with that serial and no exchange fails, then the
\* device is appended to the succeeded list, and the lines written include
\* hostname R_Lab1, username R_Lab1 privilege 15 secret Secr3t (and no username
\* admin line), ip domain-name lab.local and the SSH setup commands.
C11_FilaEjemploConfigurada ==
  ( /\ Anotado
    /\ tabla[pos] = FilaEjemplo
    /\ serie_detectada = <<"A", "1">>
    /\ fallos = 0 )
  => /\ devueltos[pos] = "True"
     /\ ok # << >>
     /\ ok[Len(ok)] = "R_Lab1"
     /\ \A l \in ComandosEjemplo : Contiene(LineasEscritas, l)
     /\ ~Contiene(LineasEscritas, Username("admin", "Secr3t"))

\* C11's case: the file holds the example row alone, the device was found by
\* autodetection and configured, and the batch has ended
C11_Testigo ==
  /\ pcLote = "fin"
  /\ tabla = << FilaEjemplo >>
  /\ serie_detectada = <<"A", "1">>
  /\ fallos = 0
  /\ ok = << "R_Lab1" >>
  /\ Contiene(LineasEscritas, Username("R_Lab1", "Secr3t"))
  /\ Contiene(LineasEscritas, SshV2)

\* the names of the worklist entries whose call returned res, in call order
NombresCon(res) ==
  LET I == SelectSeq([i \in 1..Len(devueltos) |-> i],
                     LAMBDA i : devueltos[i] = res)
  IN  [k \in 1..Len(I) |-> cola[I[k]].hostname]

\* C14: aplicar_config is called for the worklist entries one by one in
\* worklist order, each at most once and none again after it returned; every
\* entry whose call returned is in exactly one of ok / fail, according to what
\* the call returned; and the loop ends only after the last entry, with every
\* row of the file attempted once and no device in both lists.
C14_CadaEquipoUnaVez ==
  /\ intentos = [i \in 1..pos |-> i]
  /\ pos <= Len(cola)
  /\ Len(devueltos) = (IF pcLote = "equipo" THEN pos - 1 ELSE pos)
  /\ ok = NombresCon("True")
  /\ fail = NombresCon("False")
  /\ Len(ok) + Len(fail) = Len(devueltos)
  /\ \A i \in 1..Len(ok), j \in 1..Len(fail) : ok[i] # fail[j]
  /\ pcLote = "fin" =>
       /\ Len(cola) = Len(tabla)
       /\ intentos = [i \in 1..Len(tabla) |-> i]
       /\ Len(devueltos) = Len(tabla)

\* C14's case: the first device failed on an I/O error in the middle of its
\* sequence, the second one was attempted all the same and succeeded
C14_Testigo ==
  /\ pcLote = "fin"
  /\ Len(cola) = 2
  /\ devueltos = << "False", "True" >>
  /\ Len(ok) = 1
  /\ Len(fail) = 1

\* C12: buscar_serial tries its patterns in order: a response that holds an
\* SN: token followed by an alphanumeric token yields that token, whatever else
\* it holds; otherwise a response that holds a Serial Number or S/N label (in
\* any letter case) followed by an alphanumeric token yields that token; and
\* none is returned exactly when neither is there.
C12_PatronesEnOrden ==
  pcT = "extraida" =>
    LET sn == GrupoSN(resp, TRUE)
        et == PatronEtiqueta(resp)
    IN  /\ sn # Ninguna => extraida = sn
        /\ (sn = Ninguna /\ et # Ninguna) => extraida = et
        /\ extraida = Ninguna <=> (sn = Ninguna /\ et = Ninguna)

\* the same with serials of upper-case letters and digits after SN:
PatronesEnOrdenConMayusculas ==
  pcT = "extraida" =>
    LET sn == GrupoSN(resp, TRUE)
        et == PatronEtiqueta(resp)
    IN  sn = Upper(sn) =>
          /\ sn # Ninguna => extraida = sn
          /\ (sn = Ninguna /\ et # Ninguna) => extraida = et
          /\ extraida = Ninguna <=> (sn = Ninguna /\ et = Ninguna)

\* trimmed and case-folded (to lower case)
Minus(c) == CASE c = "A" -> "a" [] c = "B" -> "b" [] OTHER -> c
Normal(s) == Strip([i \in 1..Len(s) |-> Minus(s[i])])

\* C13: the comparison of the detected with the expected serial passes exactly
\* when the two are equal after trimming surrounding blanks and folding the
\* letter case, whichever of the two carries the blanks or the other case (a
\* detected serial being a non-empty text: with none detected it fails).
C13_ValidacionInsensible ==
  pcT = "comparada" =>
    /\ detectada # Ninguna =>
         (valida <=> Normal(detectada) = Normal(esperada))
    /\ (detectada # Ninguna /\ esperada # << >>) =>
         (valida <=> PasaValidacion(esperada, detectada))
    /\ detectada = Ninguna => ~valida

\* C13's case: a detected serial with blanks around it and in lower case passed
\* against the expected one without blanks and in upper case
C13_Testigo ==
  /\ pcT = "comparada"
  /\ valida
  /\ detectada = <<" ", "a", "1">>
  /\ esperada = <<"A", "1">>

\* the text holds the word password in some letter case
NombraPassword(t) == \E i \in 1..Len(t) : EstaEnSinCaja(t, i, PasswordMin)

\* C15: ir_a_enable writes enable first; once the response has been read, what
\* it has written is enable followed by exactly one line (the enable password
\* if one was supplied, an empty line otherwise) if the response holds the
\* word password in any letter case, and enable alone if it does not; and it
\* returns only after the prompt-detection read with a timeout of 3 s.
C15_ClaveSoloSiLaPiden ==
  /\ escritasE # << >> => escritasE[1] = Enable
  /\ pcE \in {"prompt", "ret"} =>
       escritasE = (IF NombraPassword(leida)
                    THEN << Enable, LineaClave(clave_enable) >>
                    ELSE << Enable >>)
  /\ pcE = "ret" => promptLeido = TimeoutEnable

\* the same with the word as the code looks for it: Password or password
ClaveSoloSiPidePassword ==
  /\ escritasE # << >> => escritasE[1] = Enable
  /\ pcE \in {"prompt", "ret"} =>
       escritasE = (IF PidePassword(leida)
                    THEN << Enable, LineaClave(clave_enable) >>
                    ELSE << Enable >>)
  /\ pcE = "ret" => promptLeido = TimeoutEnable

\* step 2 was passed and every line of the sequence, through write memory,
\* was written
ConfiguracionEscrita ==
  /\ PasaValidacion(serie_detectada, reg.serie_csv)
  /\ \A k \in 1..Len(Secuencia(reg)) : Contiene(LineasEscritas, Secuencia(reg)[k])

\* C16: once the device has passed the serial validation and the whole
\* sequence through write memory has been written, aplicar_config returns
\* True, whatever happens in the confirmation step.
C16_ConfirmacionNoDecide ==
  (pc = "retorno" /\ ConfiguracionEscrita) => resultado = "True"

\* C18: at every point of a run at most one serial channel is open.
C18_UnSoloCanalAbierto == Cardinality(abiertos) <= 1

\* the channels the program itself holds open are never two: what exceeds one
\* is a channel dropped by probar_puerto without a close
UnSoloCanalEnUso == Cardinality(abiertos \cap Referenciados) <= 1

\* the device answered the empty line with a fresh prompt line, and all of it
\* arrived while ejecutar_comando was pausing and polling for the prompt
PromptATiempo ==
  /\ HostVisto(respuesta) # NO_DETECTADO
  /\ falloEn = "ninguno"
  /\ retorno = respuesta

\* C17: when the device answers the empty line of the confirmation step with
\* a fresh prompt line (line break, hostname, #) that arrives within the pause
\* and the prompt-read window of the command, the text the hostname pattern
\* is applied to holds that prompt, and the hostname detected is the prompt's
\* and not NO_DETECTADO.
C17_HostnameDetectado ==
  (pcL = "confirmado" /\ PromptATiempo) =>
    /\ HostVisto(eco) = HostVisto(respuesta)
    /\ host_visto = HostVisto(respuesta)

\* what happens instead: the prompt was consumed by ejecutar_comando, nothing
\* is left for the read of step 4
PromptATiempoNoSeVe ==
  (pcL = "confirmado" /\ PromptATiempo) =>
    (eco = << >> /\ host_visto = NO_DETECTADO)

\* C19: the bytes pending when ejecutar_comando is called are discarded
\* before the command is written, and none of them is in the text returned:
\* what is returned is the first read's text followed by the secondary loop's
\* text, and it is the beginning of what the device sent after the drain, in
\* the order of arrival.
C19_DescartaBytesViejos ==
  /\ pcL = "escribir" => enBuffer = << >>
  /\ pcL \in {"pausa", "leer1"} => enBuffer \o porLlegar = respuesta
  /\ (pcL = "ret" /\ falloEn = "ninguno") =>
       /\ retorno = salida \o buf
       /\ retorno \o enBuffer \o porLlegar = respuesta

\* C19's case: a byte was pending at the call, and the answer was read partly
\* by the first read and partly by the secondary loop
C19_Testigo ==
  /\ pcL = "ret"
  /\ falloEn = "ninguno"
  /\ habiaViejos
  /\ salida # << >>
  /\ buf # << >>
  /\ retorno = respuesta

====
